---- MODULE Spec2Model ----
(***************************************************************************)
(* Model of the issue-triage core of src/src/utils/linear.ts:              *)
(*   triageIssue        - keyword scoring, platform decision, confidence,  *)
(*                        label derivation, reasoning                      *)
(*   createHybridIssue  - two sequential creates (GitHub, then Linear)     *)
(* Strings are TLA+ strings; substring search, lower-casing and joining    *)
(* are computed character by character as String.prototype.includes,       *)
(* toLowerCase and Array.prototype.join compute them.                      *)
(***************************************************************************)
EXTENDS Integers, Sequences, FiniteSets, TLC

VARIABLES
    tpc,          \* triage caller: "call" before the call, "return" after it
    title,        \* argument title of triageIssue
    description,  \* argument description of triageIssue
    labels,       \* argument labels of triageIssue (sequence of strings)
    scores,       \* locals engineeringScore/businessScore/hybridScore at line 474
    decision,     \* the TriageDecision returned, <<>> before the call
    hpc,          \* per createHybridIssue invocation: position
    hinput,       \* per invocation: the CreateIssueInput argument
    githubIssue,  \* per invocation: local githubIssue, <<>> until assigned
    linearIssue,  \* per invocation: local linearIssue, <<>> until assigned
    createdIssue, \* per invocation: local createdIssue of createLinearIssue
    hresult,      \* per invocation: the HybridIssueResult returned, <<>> if none
    herror,       \* per invocation: the error thrown to the caller, <<>> if none
    ghCalls,      \* per invocation: number of createGitHubIssue invocations
    linCalls,     \* per invocation: number of linearClient.createIssue invocations
    ghStore,      \* issues that exist on GitHub, in creation order
    linStore,     \* issues that exist in Linear, in creation order
    ititle,       \* title of the issue given to the agent-readiness functions
    ibody,        \* body of that issue
    assessment,   \* the AgentReadyIssue returned by prepareAgentReadyIssue
    generated,    \* the call generateMCPLabels made and the labels it returned
    uuser,        \* req.auth.userId of the API user, <<>> when absent
    utier,        \* tier in the user's session claims, <<>> when absent
    upc,          \* per request slot: position in trackUsage and the route
    usageTable,   \* number of this month's records of the user in pr-service-usage
    served,       \* number of requests of the month handled by a tracked route
    putFailures,  \* number of failed writes to pr-service-usage
    warned,       \* whether the tier-limit warning has been logged
    rpc,          \* per create_release_pr invocation: position
    rargs,        \* per invocation: the CreateReleasePrInput arguments
    changes,      \* per invocation: local changes, <<>> until assigned
    existingPR,   \* per invocation: <<>> until the lookup returns, then
                  \* <<v>> with v the local existingPR (<<>> when undefined)
    releasePr,    \* per invocation: local pr, <<>> until assigned
    relCalls,     \* per invocation: calls of getExistingPR, updatePR, createPR
    pulls         \* pull requests of the repository, in creation order

tvars == <<tpc, title, description, labels, scores, decision>>
hvars == <<hpc, hinput, githubIssue, linearIssue, createdIssue, hresult, herror,
           ghCalls, linCalls, ghStore, linStore>>
avars == <<ititle, ibody, assessment, generated>>
uvars == <<uuser, utier, upc, usageTable, served, putFailures, warned>>
rvars == <<rpc, rargs, changes, existingPR, releasePr, relCalls, pulls>>
vars == <<tpc, title, description, labels, scores, decision,
          hpc, hinput, githubIssue, linearIssue, createdIssue, hresult, herror,
          ghCalls, linCalls, ghStore, linStore,
          ititle, ibody, assessment, generated,
          uuser, utier, upc, usageTable, served, putFailures, warned,
          rpc, rargs, changes, existingPR, releasePr, relCalls, pulls>>

(***************************************************************************)
(* Bounds                                                                  *)
(***************************************************************************)
MaxTitlePhrases == 2
MaxInvocations == 2
MaxBodyPhrases == 2
MaxInFlight == 2
MaxOverLimit == 2
MaxPutFailures == 1
MaxWords == 2
MaxReleaseCalls == 2

(***************************************************************************)
(* String primitives                                                       *)
(***************************************************************************)
\* String.prototype.includes
Includes(s, k) ==
    \E i \in 1..(Len(s) - Len(k) + 1) : SubSeq(s, i, i + Len(k) - 1) = k

\* String.prototype.startsWith
StartsWith(s, k) == Len(s) >= Len(k) /\ SubSeq(s, 1, Len(k)) = k

UpperChars == "ABCDEFGHIJKLMNOPQRSTUVWXYZ"
LowerChars == "abcdefghijklmnopqrstuvwxyz"

LowerChar(c) ==
    IF \E i \in 1..26 : SubSeq(UpperChars, i, i) = c
    THEN LET i == CHOOSE j \in 1..26 : SubSeq(UpperChars, j, j) = c
         IN SubSeq(LowerChars, i, i)
    ELSE c

\* String.prototype.toLowerCase
RECURSIVE ToLowerCase(_)
ToLowerCase(s) ==
    IF Len(s) = 0 THEN ""
    ELSE LowerChar(SubSeq(s, 1, 1)) \o ToLowerCase(SubSeq(s, 2, Len(s)))

\* Array.prototype.join
RECURSIVE Join(_, _)
Join(xs, sep) ==
    IF Len(xs) = 0 THEN ""
    ELSE IF Len(xs) = 1 THEN xs[1]
    ELSE xs[1] \o sep \o Join(Tail(xs), sep)

Range(xs) == {xs[i] : i \in 1..Len(xs)}


(***************************************************************************)
(* JavaScript numbers that arise in triageIssue: a quotient num/den of     *)
(* naturals.  den = 0 is the result of a division by zero: NaN when        *)
(* num = 0, Infinity otherwise.                                            *)
(***************************************************************************)
Num(n, d) == [num |-> n, den |-> d]
IsNaN(x) == x.den = 0 /\ x.num = 0
IsInfinity(x) == x.den = 0 /\ x.num > 0

\* a / b
Divide(a, b) == Num(a, b)

\* x * 1.1
TimesBoost(x) == Num(x.num * 11, x.den * 10)

\* variant: no cap at 1.0
MathMinOne_NoCap(x) == x

\* Math.min(x, 1.0): NaN if x is NaN, 1.0 if x exceeds 1.0
MathMinOne(x) ==
    IF IsNaN(x) THEN x
    ELSE IF x.num > x.den THEN Num(1, 1)
    ELSE x

\* Math.max on naturals
MathMax(a, b) == IF a >= b THEN a ELSE b

(***************************************************************************)
(* triageIssue: vocabularies                                               *)
(***************************************************************************)
engineeringKeywords == <<
    "bug", "error", "crash", "fix", "code", "debug", "debugging",
    "feature", "implement", "enhancement", "refactor", "refactoring",
    "api", "endpoint", "database", "sql", "schema", "migration",
    "server", "client", "infrastructure", "devops", "deployment",
    "terraform", "docker", "ci/cd", "pipeline", "build",
    "security", "vulnerability", "patch", "ssl", "certificate",
    "performance", "optimization", "memory", "cpu", "load", "scale",
    "javascript", "typescript", "react", "node", "python", "golang",
    "frontend", "backend", "web", "mobile", "responsive",
    "authentication", "authorization", "oauth", "jwt",
    "test", "testing", "unit test", "integration test", "qa",
    "review", "pull request", "merge", "branch",
    "dependency", "library", "package", "version", "update", "upgrade",
    "reefhr", "payroll", "integration", "clover", "payment processing" >>

businessKeywords == <<
    "strategy", "roadmap", "planning", "product", "vision",
    "requirements", "specification", "analysis", "research",
    "market", "customer", "user", "client", "feedback",
    "competitive", "positioning", "value proposition",
    "design", "ux", "user experience", "wireframe", "mockup",
    "prototype", "user flow", "user journey", "persona",
    "budget", "revenue", "pricing", "cost", "roi", "profit",
    "sales", "marketing", "campaign", "promotion", "branding",
    "compliance", "legal", "gdpr", "privacy", "policy",
    "regulation", "audit", "certification", "standard",
    "hr", "hiring", "recruiting", "onboarding", "training",
    "process", "workflow", "procedure", "documentation",
    "meeting", "discussion", "decision", "approval",
    "partnership", "vendor", "supplier", "contract", "procurement",
    "negotiation", "relationship", "agreement" >>

hybridKeywords == <<
    "large feature", "epic", "project launch", "major release",
    "compliance implementation", "security initiative",
    "platform migration", "system overhaul", "integration project" >>

engineeringStrong == {"bug", "error", "crash", "api", "database", "deployment"}
businessStrong == {"strategy", "roadmap", "compliance", "budget", "customer"}

(***************************************************************************)
(* triageIssue: scoring (lines 421-471)                                    *)
(***************************************************************************)
\* text.includes(keyword) || labelText.includes(keyword)
KeywordFound(keyword, text, labelText) ==
    Includes(text, keyword) \/ Includes(labelText, keyword)

\* variant: the strong set is ignored
EngineeringWeight_NoStrong(keyword) ==
    IF Len(keyword) > 8 THEN 2
    ELSE 1

EngineeringWeight(keyword) ==
    IF keyword \in engineeringStrong THEN 3
    ELSE IF Len(keyword) > 8 THEN 2
    ELSE 1

BusinessWeight(keyword) ==
    IF keyword \in businessStrong THEN 3
    ELSE IF Len(keyword) > 8 THEN 2
    ELSE 1

HybridWeight(keyword) == 4

\* engineeringKeywords.forEach(...), from index i on
RECURSIVE EngineeringLoop(_, _, _)
EngineeringLoop(i, text, labelText) ==
    IF i > Len(engineeringKeywords) THEN 0
    ELSE (IF KeywordFound(engineeringKeywords[i], text, labelText)
          THEN EngineeringWeight(engineeringKeywords[i]) ELSE 0)
         + EngineeringLoop(i + 1, text, labelText)

\* businessKeywords.forEach(...), from index i on
RECURSIVE BusinessLoop(_, _, _)
BusinessLoop(i, text, labelText) ==
    IF i > Len(businessKeywords) THEN 0
    ELSE (IF KeywordFound(businessKeywords[i], text, labelText)
          THEN BusinessWeight(businessKeywords[i]) ELSE 0)
         + BusinessLoop(i + 1, text, labelText)

\* hybridKeywords.forEach(...), from index i on
RECURSIVE HybridLoop(_, _, _)
HybridLoop(i, text, labelText) ==
    IF i > Len(hybridKeywords) THEN 0
    ELSE (IF KeywordFound(hybridKeywords[i], text, labelText)
          THEN HybridWeight(hybridKeywords[i]) ELSE 0)
         + HybridLoop(i + 1, text, labelText)

\* variant: one bonus of 5 for any of the five phrases
EngineeringBonus_Single(text) ==
    IF Includes(text, "copilot") \/ Includes(text, "ai agent")
       \/ Includes(text, "automation")
       \/ Includes(text, "agent/available") \/ Includes(text, "agent-ready")
    THEN 5 ELSE 0

\* the two engineering special cases (lines 461-467)
EngineeringBonus(text) ==
    (IF Includes(text, "copilot") \/ Includes(text, "ai agent")
        \/ Includes(text, "automation") THEN 5 ELSE 0)
    + (IF Includes(text, "agent/available") \/ Includes(text, "agent-ready")
       THEN 5 ELSE 0)

\* the business special case (lines 469-471)
BusinessBonus(text) ==
    IF Includes(text, "customer request") \/ Includes(text, "business requirement")
    THEN 4 ELSE 0

\* the three scores when control reaches line 474
ComputeScores(text, labelText) ==
    [engineeringScore |-> EngineeringLoop(1, text, labelText) + EngineeringBonus(text),
     businessScore    |-> BusinessLoop(1, text, labelText) + BusinessBonus(text),
     hybridScore      |-> HybridLoop(1, text, labelText)]

(***************************************************************************)
(* triageIssue: classification (lines 473-491)                             *)
(***************************************************************************)
\* variant: an engineering/business tie goes to github
DecidePlatform_TieToGitHub(e, b, h) ==
    IF h > 0 /\ h >= MathMax(e, b) THEN "hybrid"
    ELSE IF e >= b THEN "github"
    ELSE "linear"

\* variant: any positive hybrid score decides for hybrid
DecidePlatform_HybridIfPositive(e, b, h) ==
    IF h > 0 THEN "hybrid"
    ELSE IF e > b THEN "github"
    ELSE "linear"

DecidePlatform(e, b, h) ==
    IF h > 0 /\ h >= MathMax(e, b) THEN "hybrid"
    ELSE IF e > b THEN "github"
    ELSE "linear"

\* variant: hybrid decisions are flagged as engineering
IsEngineeringFor_HybridTrue(platform) ==
    IF platform = "hybrid" THEN TRUE
    ELSE IF platform = "github" THEN TRUE
    ELSE FALSE

IsEngineeringFor(platform) ==
    IF platform = "hybrid" THEN FALSE
    ELSE IF platform = "github" THEN TRUE
    ELSE FALSE

\* variant: the quotients are taken without the totalScore > 0 guard
RawConfidence_Unguarded(e, b, h) ==
    LET totalScore == e + b + h
        platform == DecidePlatform(e, b, h)
    IN IF platform = "hybrid" THEN Divide(h, totalScore)
       ELSE IF platform = "github" THEN Divide(e, totalScore)
       ELSE Divide(b, totalScore)

\* the local confidence when control reaches line 493
RawConfidence(e, b, h) ==
    LET totalScore == e + b + h
        platform == DecidePlatform(e, b, h)
    IN IF platform = "hybrid" THEN Divide(h, totalScore)
       ELSE IF platform = "github"
            THEN (IF totalScore > 0 THEN Divide(e, totalScore) ELSE Num(1, 2))
       ELSE (IF totalScore > 0 THEN Divide(b, totalScore) ELSE Num(1, 2))

\* variant: the boost is left out
FinalConfidence_NoBoost(confidence) == MathMinOne(confidence)

\* Math.min(confidence * 1.1, 1.0), line 547
FinalConfidence(confidence) == MathMinOne(TimesBoost(confidence))

(***************************************************************************)
(* triageIssue: labels (lines 493-527), reasoning (529-542), result        *)
(***************************************************************************)
\* an optional push: <<label>> if the condition holds, nothing otherwise
PushIf(cond, label) == IF cond THEN <<label>> ELSE <<>>

\* variant: every matching type label is pushed
GitHubSuggested_EveryType(text) ==
    <<"mcp/agent-ready">>
    \o PushIf(Includes(text, "bug") \/ Includes(text, "error"), "type/bug")
    \o PushIf(Includes(text, "feature") \/ Includes(text, "implement"), "type/feature")
    \o PushIf(Includes(text, "security"), "type/security")
    \o PushIf(Includes(text, "infrastructure") \/ Includes(text, "devops"),
              "type/infrastructure")
    \o PushIf(Includes(text, "api"), "component/api")
    \o PushIf(Includes(text, "web") \/ Includes(text, "frontend"), "component/web")
    \o PushIf(Includes(text, "database"), "component/database")
    \o <<"agent/available">>

GitHubSuggested(text) ==
    <<"mcp/agent-ready">>
    \o (IF Includes(text, "bug") \/ Includes(text, "error") THEN <<"type/bug">>
        ELSE IF Includes(text, "feature") \/ Includes(text, "implement")
             THEN <<"type/feature">>
        ELSE IF Includes(text, "security") THEN <<"type/security">>
        ELSE IF Includes(text, "infrastructure") \/ Includes(text, "devops")
             THEN <<"type/infrastructure">>
        ELSE <<>>)
    \o PushIf(Includes(text, "api"), "component/api")
    \o PushIf(Includes(text, "web") \/ Includes(text, "frontend"), "component/web")
    \o PushIf(Includes(text, "database"), "component/database")
    \o <<"agent/available">>

LinearSuggested(text) ==
    PushIf(Includes(text, "product"), "Product Strategy")
    \o PushIf(Includes(text, "business"), "Business Requirements")
    \o PushIf(Includes(text, "design") \/ Includes(text, "ux"), "UX/Design")
    \o PushIf(Includes(text, "customer"), "Customer Feedback")
    \o PushIf(Includes(text, "compliance"), "Compliance")
    \o PushIf(Includes(text, "marketing"), "Marketing")

SuggestedLabels(platform, text) ==
    (IF platform = "github" \/ platform = "hybrid" THEN GitHubSuggested(text) ELSE <<>>)
    \o (IF platform = "linear" \/ platform = "hybrid" THEN LinearSuggested(text) ELSE <<>>)

IsGitHubLabel(l) ==
    StartsWith(l, "type/") \/ StartsWith(l, "component/") \/ Includes(l, "agent")
IsLinearLabel(l) == ~Includes(l, "/") /\ ~Includes(l, "agent")
IsMcpLabel(l) == StartsWith(l, "mcp/")

RECURSIVE FilterGitHub(_)
FilterGitHub(ls) ==
    IF Len(ls) = 0 THEN <<>>
    ELSE PushIf(IsGitHubLabel(ls[1]), ls[1]) \o FilterGitHub(Tail(ls))

RECURSIVE FilterLinear(_)
FilterLinear(ls) ==
    IF Len(ls) = 0 THEN <<>>
    ELSE PushIf(IsLinearLabel(ls[1]), ls[1]) \o FilterLinear(Tail(ls))

RECURSIVE FilterMcp(_)
FilterMcp(ls) ==
    IF Len(ls) = 0 THEN <<>>
    ELSE PushIf(IsMcpLabel(ls[1]), ls[1]) \o FilterMcp(Tail(ls))

\* keywords.filter(k => text.includes(k) || labelText.includes(k))
RECURSIVE FilterFound(_, _, _)
FilterFound(keywords, text, labelText) ==
    IF Len(keywords) = 0 THEN <<>>
    ELSE PushIf(KeywordFound(keywords[1], text, labelText), keywords[1])
         \o FilterFound(Tail(keywords), text, labelText)

\* variant: the hybrid vocabulary is left out of the list
DetectedKeywords_NoHybrid(text, labelText) ==
    FilterFound(engineeringKeywords, text, labelText)
    \o FilterFound(businessKeywords, text, labelText)

DetectedKeywords(text, labelText) ==
    FilterFound(engineeringKeywords, text, labelText)
    \o FilterFound(businessKeywords, text, labelText)
    \o FilterFound(hybridKeywords, text, labelText)

\* s || fallback on strings: the empty string is falsy
OrElse(s, fallback) == IF s = "" THEN fallback ELSE s

Reasoning(platform, detectedKeywords) ==
    IF platform = "hybrid" THEN
        "Hybrid issue detected requiring both business and technical work. Keywords: "
        \o OrElse(Join(detectedKeywords, ", "), "complex project indicators")
        \o ". Will create coordinated issues in both GitHub (for engineering) and Linear (for business coordination)."
    ELSE IF platform = "github" THEN
        "Engineering issue detected - requires code changes. Keywords: "
        \o OrElse(Join(detectedKeywords, ", "), "technical indicators")
        \o ". Best managed on GitHub for Copilot agent integration and technical collaboration."
    ELSE
        "Business/product issue detected - strategic or operational focus. Keywords: "
        \o OrElse(Join(detectedKeywords, ", "), "business indicators")
        \o ". Best managed on Linear for product workflow and business coordination."

\* an optional value: <<v>> when defined, <<>> when undefined
Some(v) == <<v>>
Undefined == <<>>

\* the lower-cased blobs of lines 348-349
TextOf(t, d) == ToLowerCase(t \o " " \o d)
LabelTextOf(ls) == ToLowerCase(Join(ls, " "))

\* variant: linearLabels is filled in for every platform
TriageResult_LinearAlways(text, labelText, sc) ==
    LET e == sc.engineeringScore
        b == sc.businessScore
        h == sc.hybridScore
        platform == DecidePlatform(e, b, h)
        suggestedLabels == SuggestedLabels(platform, text)
    IN [platform        |-> platform,
        reasoning       |-> Reasoning(platform, DetectedKeywords(text, labelText)),
        confidence      |-> FinalConfidence(RawConfidence(e, b, h)),
        suggestedLabels |-> suggestedLabels,
        isEngineering   |-> IsEngineeringFor(platform),
        githubLabels    |-> IF platform = "github" \/ platform = "hybrid"
                            THEN Some(FilterGitHub(suggestedLabels)) ELSE Undefined,
        linearLabels    |-> Some(FilterLinear(suggestedLabels)),
        mcpLabels       |-> IF platform = "github" \/ platform = "hybrid"
                            THEN Some(FilterMcp(suggestedLabels)) ELSE Undefined]

\* the TriageDecision built at lines 473-556 from the blobs and the scores
TriageResult(text, labelText, sc) ==
    LET e == sc.engineeringScore
        b == sc.businessScore
        h == sc.hybridScore
        platform == DecidePlatform(e, b, h)
        suggestedLabels == SuggestedLabels(platform, text)
    IN [platform        |-> platform,
        reasoning       |-> Reasoning(platform, DetectedKeywords(text, labelText)),
        confidence      |-> FinalConfidence(RawConfidence(e, b, h)),
        suggestedLabels |-> suggestedLabels,
        isEngineering   |-> IsEngineeringFor(platform),
        githubLabels    |-> IF platform = "github" \/ platform = "hybrid"
                            THEN Some(FilterGitHub(suggestedLabels)) ELSE Undefined,
        linearLabels    |-> IF platform = "linear" \/ platform = "hybrid"
                            THEN Some(FilterLinear(suggestedLabels)) ELSE Undefined,
        mcpLabels       |-> IF platform = "github" \/ platform = "hybrid"
                            THEN Some(FilterMcp(suggestedLabels)) ELSE Undefined]

\* triageIssue(title, description, labels)
triageIssue(t, d, ls) ==
    LET text == TextOf(t, d)
        labelText == LabelTextOf(ls)
    IN TriageResult(text, labelText, ComputeScores(text, labelText))

(***************************************************************************)
(* Callers of triageIssue: the arguments are drawn from bounded sets       *)
(***************************************************************************)
TitlePhrases == {"Fix", "Bug", "user", "epic", "customer", "copilot", "agent-ready"}

\* all titles made of at most n phrases separated by one space
RECURSIVE TitlesUpTo(_)
TitlesUpTo(n) ==
    IF n = 0 THEN {""}
    ELSE LET shorter == TitlesUpTo(n - 1)
         IN shorter \cup TitlePhrases
            \cup {t \o " " \o p : t \in shorter \ {""}, p \in TitlePhrases}

Titles == TitlesUpTo(MaxTitlePhrases)

Descriptions ==
    {"", "request", "compliance implementation",
     "/api/Users returns 500 errors",
     "Major release of the web design"}

LabelLists == {<<>>, <<"Roadmap", "epic">>}

HybridIdle ==
    /\ hpc = [i \in 1..MaxInvocations |-> "idle"]
    /\ hinput = [i \in 1..MaxInvocations |-> Undefined]
    /\ githubIssue = [i \in 1..MaxInvocations |-> Undefined]
    /\ linearIssue = [i \in 1..MaxInvocations |-> Undefined]
    /\ createdIssue = [i \in 1..MaxInvocations |-> Undefined]
    /\ hresult = [i \in 1..MaxInvocations |-> Undefined]
    /\ herror = [i \in 1..MaxInvocations |-> Undefined]
    /\ ghCalls = [i \in 1..MaxInvocations |-> 0]
    /\ linCalls = [i \in 1..MaxInvocations |-> 0]
    /\ ghStore = <<>>
    /\ linStore = <<>>

AgentIdle ==
    /\ ititle = ""
    /\ ibody = ""
    /\ assessment = Undefined
    /\ generated = Undefined

UsageIdle ==
    /\ uuser = Undefined
    /\ utier = Undefined
    /\ upc = [r \in 1..MaxInFlight |-> "idle"]
    /\ usageTable = 0
    /\ served = 0
    /\ putFailures = 0
    /\ warned = FALSE

ReleaseIdle ==
    /\ rpc = [r \in 1..MaxReleaseCalls |-> "idle"]
    /\ rargs = [r \in 1..MaxReleaseCalls |-> Undefined]
    /\ changes = [r \in 1..MaxReleaseCalls |-> Undefined]
    /\ existingPR = [r \in 1..MaxReleaseCalls |-> Undefined]
    /\ releasePr = [r \in 1..MaxReleaseCalls |-> Undefined]
    /\ relCalls = [r \in 1..MaxReleaseCalls |->
                      [getExistingPR |-> 0, updatePR |-> 0, createPR |-> 0]]
    /\ pulls = <<>>

InitTriage ==
    /\ tpc = "call"
    /\ title \in Titles
    /\ description \in Descriptions
    /\ labels \in LabelLists
    /\ scores = Undefined
    /\ decision = Undefined
    /\ HybridIdle
    /\ AgentIdle
    /\ UsageIdle
    /\ ReleaseIdle

\* one call of triageIssue(title, description, labels)
TriageIssue ==
    /\ tpc = "call"
    /\ \E text \in {TextOf(title, description)}, labelText \in {LabelTextOf(labels)} :
         \E sc \in {ComputeScores(text, labelText)} :
            /\ scores' = Some(sc)
            /\ decision' = Some(TriageResult(text, labelText, sc))
    /\ tpc' = "return"
    /\ UNCHANGED <<title, description, labels>>
    /\ UNCHANGED hvars
    /\ UNCHANGED <<avars, uvars, rvars>>

NextTriage == TriageIssue

SpecTriage == InitTriage /\ [][NextTriage]_vars

(***************************************************************************)
(* Properties of triageIssue, checked under SpecTriage                     *)
(***************************************************************************)
Returned == tpc = "return"
D == decision[1]
E == scores[1].engineeringScore
B == scores[1].businessScore
H == scores[1].hybridScore
CallText == TextOf(title, description)
CallLabelText == LabelTextOf(labels)

\* C1: the platform is hybrid if h > 0 and h >= e and h >= b, otherwise
\* github if e > b, otherwise linear.
C1_PlatformOrder ==
    Returned =>
        D.platform = IF H > 0 /\ H >= E /\ H >= B THEN "hybrid"
                     ELSE IF E > B THEN "github"
                     ELSE "linear"

\* a non-zero engineering/business tie without a dominating hybrid score
C1_Witness == Returned /\ E = B /\ E > 0 /\ H < E /\ D.platform = "linear"

\* C2: every decision has a platform in {github, linear, hybrid} and a
\* confidence that is a number in [0,1] (never NaN or Infinity).
C2_PlatformAndConfidenceRange ==
    Returned =>
        /\ D.platform \in {"github", "linear", "hybrid"}
        /\ D.confidence.den > 0
        /\ 0 <= D.confidence.num
        /\ D.confidence.num <= D.confidence.den

\* the call with empty title, description and labels has returned
C2_Witness == Returned /\ title = "" /\ description = "" /\ labels = <<>>

\* C3 as claimed: all scores zero gives linear with confidence exactly 0.5.
C3_ZeroScoresConfidenceHalf ==
    (Returned /\ E = 0 /\ B = 0 /\ H = 0) =>
        /\ D.platform = "linear"
        /\ D.confidence.den > 0
        /\ D.confidence.num * 2 = D.confidence.den

\* C3 amended: all scores zero gives linear with confidence 0.55, the 0.5
\* default after the 1.1 boost.
C3_ZeroScoresConfidenceBoosted ==
    (Returned /\ E = 0 /\ B = 0 /\ H = 0) =>
        /\ D.platform = "linear"
        /\ D.confidence.den > 0
        /\ D.confidence.num * 20 = D.confidence.den * 11

C3_Witness == Returned /\ E = 0 /\ B = 0 /\ H = 0 /\ D.platform = "linear"

\* the score of the category chosen as platform
WinningScore ==
    IF D.platform = "hybrid" THEN H
    ELSE IF D.platform = "github" THEN E
    ELSE B

\* C4: when the total score is positive, confidence = min(1.0, 1.1 * w / total)
\* with w the score of the chosen category.
C4_ConfidenceFormula ==
    (Returned /\ E + B + H > 0) =>
        /\ D.confidence.den > 0
        /\ IF 11 * WinningScore >= 10 * (E + B + H)
           THEN D.confidence.num = D.confidence.den
           ELSE D.confidence.num * 10 * (E + B + H)
                    = 11 * WinningScore * D.confidence.den

\* a positive total whose boosted quotient stays below 1.0
C4_Witness ==
    /\ Returned
    /\ E + B + H > 0
    /\ 11 * WinningScore < 10 * (E + B + H)
    /\ D.confidence.num < D.confidence.den

\* C6: isEngineering is true exactly for github decisions.
C6_IsEngineeringIffGitHub ==
    Returned => (D.isEngineering <=> D.platform = "github")

C6_Witness == Returned /\ D.platform = "hybrid" /\ ~D.isEngineering

\* the weight the tiered rule gives a keyword, for a given strong set
TieredWeight(keyword, strong) ==
    IF keyword \in strong THEN 3
    ELSE IF Len(keyword) > 8 THEN 2
    ELSE 1

RECURSIVE SumTiered(_, _)
SumTiered(S, strong) ==
    IF S = {} THEN 0
    ELSE LET k == CHOOSE x \in S : TRUE
         IN TieredWeight(k, strong) + SumTiered(S \ {k}, strong)

\* the keywords of a vocabulary that occur in the text or in the labels
FoundIn(keywords, text, labelText) ==
    {k \in Range(keywords) : KeywordFound(k, text, labelText)}

\* C7 as claimed: in each of the three vocabularies every matched keyword
\* adds 3 (strong), else 2 (longer than 8 characters), else 1.
C7_TieredWeightsAllVocabularies ==
    Returned =>
        \A text \in {CallText}, labelText \in {CallLabelText} :
            /\ E - EngineeringBonus(text)
                 = SumTiered(FoundIn(engineeringKeywords, text, labelText), engineeringStrong)
            /\ B - BusinessBonus(text)
                 = SumTiered(FoundIn(businessKeywords, text, labelText), businessStrong)
            /\ H = SumTiered(FoundIn(hybridKeywords, text, labelText), {})

\* C7 amended: the engineering and business vocabularies use the tiered
\* weights 3/2/1; every matched hybrid keyword adds a flat 4.
C7_TieredWeightsFlatHybrid ==
    Returned =>
        \A text \in {CallText}, labelText \in {CallLabelText} :
            /\ E - EngineeringBonus(text)
                 = SumTiered(FoundIn(engineeringKeywords, text, labelText), engineeringStrong)
            /\ B - BusinessBonus(text)
                 = SumTiered(FoundIn(businessKeywords, text, labelText), businessStrong)
            /\ H = 4 * Cardinality(FoundIn(hybridKeywords, text, labelText))

\* keywords of all three engineering tiers and a hybrid keyword matched
C7_Witness ==
    /\ Returned
    /\ \E text \in {CallText}, labelText \in {CallLabelText} :
          /\ \A w \in 1..3 :
                \E k \in FoundIn(engineeringKeywords, text, labelText) :
                    TieredWeight(k, engineeringStrong) = w
          /\ FoundIn(hybridKeywords, text, labelText) # {}
          /\ FoundIn(businessKeywords, text, labelText) # {}

AgentGroupOne(text) ==
    Includes(text, "copilot") \/ Includes(text, "ai agent") \/ Includes(text, "automation")
AgentGroupTwo(text) ==
    Includes(text, "agent/available") \/ Includes(text, "agent-ready")
BusinessFraming(text) ==
    Includes(text, "customer request") \/ Includes(text, "business requirement")

\* what the scores hold beyond the keyword weights
EngineeringExtra(text, labelText) ==
    E - SumTiered(FoundIn(engineeringKeywords, text, labelText), engineeringStrong)
BusinessExtra(text, labelText) ==
    B - SumTiered(FoundIn(businessKeywords, text, labelText), businessStrong)

\* C8 as claimed: the engineering bonus is exactly 5 when any of the five
\* agent phrases occurs and 0 otherwise; the business bonus is exactly 4 when
\* a customer/business-requirement phrase occurs and 0 otherwise.
C8_BonusExactlyFive ==
    Returned =>
        \A text \in {CallText}, labelText \in {CallLabelText} :
            /\ EngineeringExtra(text, labelText)
                 = IF AgentGroupOne(text) \/ AgentGroupTwo(text) THEN 5 ELSE 0
            /\ BusinessExtra(text, labelText)
                 = IF BusinessFraming(text) THEN 4 ELSE 0

\* C8 amended: the engineering bonus is 5 for each of the two phrase groups
\* that occurs ({copilot, ai agent, automation} and {agent/available,
\* agent-ready}), so 0, 5 or 10; the business bonus is 4 or 0 as claimed.
C8_BonusPerGroup ==
    Returned =>
        \A text \in {CallText}, labelText \in {CallLabelText} :
            /\ EngineeringExtra(text, labelText)
                 = (IF AgentGroupOne(text) THEN 5 ELSE 0)
                   + (IF AgentGroupTwo(text) THEN 5 ELSE 0)
            /\ BusinessExtra(text, labelText)
                 = IF BusinessFraming(text) THEN 4 ELSE 0

\* both agent phrase groups occur in one text
C8_Witness ==
    /\ Returned
    /\ \E text \in {CallText} : AgentGroupOne(text) /\ AgentGroupTwo(text)

(***************************************************************************)
(* createHybridIssue (lines 561-601) and createLinearIssue (lines 285-335) *)
(* Each invocation runs up to its next await in one step; an awaited       *)
(* promise is fulfilled or rejected by the collaborator.                   *)
(***************************************************************************)
Invocations == 1..MaxInvocations

\* !x for an optional string: undefined and the empty string are falsy
Falsy(x) == x = Undefined \/ x = Some("")

HybridInputs ==
    [title       : {"Launch"},
     description : {"Ship it"},
     platform    : {"github", "linear", "hybrid"},
     owner       : {Undefined, Some(""), Some("acme")},
     repo        : {Undefined, Some("widgets")},
     teamId      : {Undefined, Some("TEAM")},
     labels      : {Undefined, Some(<<"p1">>)}]

ErrPlatform == "createHybridIssue requires platform to be 'hybrid'"
ErrOwnerRepo == "GitHub owner and repo required for hybrid issues"
ErrTeamId == "Linear teamId required for hybrid issues"
ErrLinearTeamId == "teamId is required for creating Linear issues"
ErrNoLinearIssue == "Failed to create Linear issue"
\* rejections raised by the collaborators
GitHubApiError == "GitHubApiError"
LinearApiError == "LinearApiError"
LinearFetchError == "LinearFetchError"

\* the argument of createGitHubIssue built at lines 575-581
GitHubArgs(input) ==
    [title  |-> "[Tech] " \o input.title,
     body   |-> input.description
                \o "\n\n---\n**MCP Bridge**: This is the technical implementation part of a hybrid issue. Business coordination tracked in Linear.",
     owner  |-> input.owner[1],
     repo   |-> input.repo[1],
     labels |-> (IF input.labels = Undefined THEN <<>> ELSE input.labels[1])
                \o <<"mcp/synced", "agent/available", "type/hybrid">>]

\* variant: the description carries no link to the GitHub issue
LinearArgs_NoLink(input, ghIssue) ==
    [title       |-> "[Business] " \o input.title,
     description |-> input.description
                     \o "\n\n---\n**MCP Bridge**: This is the business coordination part of a hybrid issue. Technical implementation tracked in GitHub.",
     teamId      |-> input.teamId]

\* the argument of createLinearIssue built at lines 584-589
LinearArgs(input, ghIssue) ==
    [title       |-> "[Business] " \o input.title,
     description |-> input.description
                     \o "\n\n---\n**MCP Bridge**: This is the business coordination part of a hybrid issue. Technical implementation tracked in GitHub.\n\nLinked GitHub Issue: "
                     \o ghIssue.url,
     teamId      |-> input.teamId]

\* the record createGitHubIssue returns for the n-th issue of the repository
NewGitHubIssue(n, args) ==
    [number |-> n,
     title  |-> args.title,
     body   |-> args.body,
     state  |-> "open",
     labels |-> args.labels,
     url    |-> "https://github.com/" \o args.owner \o "/" \o args.repo
                \o "/issues/" \o ToString(n)]

\* the issue the Linear API creates as the n-th issue of the workspace
NewLinearIssue(n, args) ==
    [id          |-> "LIN-" \o ToString(n),
     title       |-> args.title,
     description |-> args.description,
     url         |-> "https://linear.app/issue/LIN-" \o ToString(n)]

\* the LinearIssue returned at lines 309-324
FullLinearIssue(created) ==
    [id |-> created.id, title |-> created.title,
     description |-> created.description, url |-> created.url,
     status |-> Some("Todo"), labels |-> <<>>]

\* the LinearIssue returned by the catch block, lines 327-333
FallbackLinearIssue(created) ==
    [id |-> created.id, title |-> created.title,
     description |-> created.description, url |-> created.url,
     status |-> Undefined, labels |-> <<>>]

\* throw: the invocation ends with an error
Throw(i, message) ==
    /\ hpc' = [hpc EXCEPT ![i] = "thrown"]
    /\ herror' = [herror EXCEPT ![i] = Some(message)]

\* variant: teamId is not validated before the GitHub create
CreateHybridIssue_NoTeamCheck(i, input) ==
    /\ hpc[i] = "idle"
    /\ hinput' = [hinput EXCEPT ![i] = Some(input)]
    /\ IF input.platform # "hybrid"
       THEN Throw(i, ErrPlatform) /\ UNCHANGED ghCalls
       ELSE IF Falsy(input.owner) \/ Falsy(input.repo)
       THEN Throw(i, ErrOwnerRepo) /\ UNCHANGED ghCalls
       ELSE /\ ghCalls' = [ghCalls EXCEPT ![i] = @ + 1]
            /\ hpc' = [hpc EXCEPT ![i] = "awaitGitHub"]
            /\ UNCHANGED herror
    /\ UNCHANGED <<githubIssue, linearIssue, createdIssue, hresult, linCalls,
                   ghStore, linStore>>
    /\ UNCHANGED tvars
    /\ UNCHANGED <<avars, uvars, rvars>>

\* a call createHybridIssue(input): validation, then createGitHubIssue
CreateHybridIssue(i, input) ==
    /\ hpc[i] = "idle"
    /\ hinput' = [hinput EXCEPT ![i] = Some(input)]
    /\ IF input.platform # "hybrid"
       THEN Throw(i, ErrPlatform) /\ UNCHANGED ghCalls
       ELSE IF Falsy(input.owner) \/ Falsy(input.repo)
       THEN Throw(i, ErrOwnerRepo) /\ UNCHANGED ghCalls
       ELSE IF Falsy(input.teamId)
       THEN Throw(i, ErrTeamId) /\ UNCHANGED ghCalls
       ELSE /\ ghCalls' = [ghCalls EXCEPT ![i] = @ + 1]
            /\ hpc' = [hpc EXCEPT ![i] = "awaitGitHub"]
            /\ UNCHANGED herror
    /\ UNCHANGED <<githubIssue, linearIssue, createdIssue, hresult, linCalls,
                   ghStore, linStore>>
    /\ UNCHANGED tvars
    /\ UNCHANGED <<avars, uvars, rvars>>

\* createGitHubIssue resolves: the issue exists, createLinearIssue is called
\* and runs to its await of linearClient.createIssue
GitHubResolve(i) ==
    /\ hpc[i] = "awaitGitHub"
    /\ LET issue == NewGitHubIssue(Len(ghStore) + 1, GitHubArgs(hinput[i][1]))
       IN /\ ghStore' = Append(ghStore, issue)
          /\ githubIssue' = [githubIssue EXCEPT ![i] = Some(issue)]
    /\ linCalls' = [linCalls EXCEPT ![i] = @ + 1]
    /\ IF Falsy(hinput[i][1].teamId)
       THEN Throw(i, ErrLinearTeamId)
       ELSE hpc' = [hpc EXCEPT ![i] = "awaitLinearCreate"] /\ UNCHANGED herror
    /\ UNCHANGED <<hinput, linearIssue, createdIssue, hresult, ghCalls, linStore>>
    /\ UNCHANGED tvars
    /\ UNCHANGED <<avars, uvars, rvars>>

\* variant: the rejection is swallowed and the Linear create still runs
GitHubReject_Continue(i) ==
    /\ hpc[i] = "awaitGitHub"
    /\ linCalls' = [linCalls EXCEPT ![i] = @ + 1]
    /\ hpc' = [hpc EXCEPT ![i] = "awaitLinearCreate"]
    /\ UNCHANGED <<hinput, githubIssue, linearIssue, createdIssue, hresult, herror,
                   ghCalls, ghStore, linStore>>
    /\ UNCHANGED tvars
    /\ UNCHANGED <<avars, uvars, rvars>>

\* variant: a rejected createGitHubIssue is called again
GitHubReject_Retry(i) ==
    /\ hpc[i] = "awaitGitHub"
    /\ ghCalls' = [ghCalls EXCEPT ![i] = @ + 1]
    /\ UNCHANGED <<hpc, hinput, githubIssue, linearIssue, createdIssue, hresult,
                   herror, linCalls, ghStore, linStore>>
    /\ UNCHANGED tvars
    /\ UNCHANGED <<avars, uvars, rvars>>

\* createGitHubIssue rejects: the error propagates out of createHybridIssue
GitHubReject(i) ==
    /\ hpc[i] = "awaitGitHub"
    /\ Throw(i, GitHubApiError)
    /\ UNCHANGED <<hinput, githubIssue, linearIssue, createdIssue, hresult,
                   ghCalls, linCalls, ghStore, linStore>>
    /\ UNCHANGED tvars
    /\ UNCHANGED <<avars, uvars, rvars>>

\* variant: the link names the newest GitHub issue instead of the own one
LinearCreateResolve_NewestGitHub(i) ==
    /\ hpc[i] = "awaitLinearCreate"
    /\ LET issue == NewLinearIssue(Len(linStore) + 1,
                                   LinearArgs(hinput[i][1], ghStore[Len(ghStore)]))
       IN /\ linStore' = Append(linStore, issue)
          /\ createdIssue' = [createdIssue EXCEPT ![i] = Some(issue)]
    /\ hpc' = [hpc EXCEPT ![i] = "awaitLinearIssue"]
    /\ UNCHANGED <<hinput, githubIssue, linearIssue, hresult, herror,
                   ghCalls, linCalls, ghStore>>
    /\ UNCHANGED tvars
    /\ UNCHANGED <<avars, uvars, rvars>>

\* linearClient.createIssue resolves with a payload that carries the issue
LinearCreateResolve(i) ==
    /\ hpc[i] = "awaitLinearCreate"
    /\ LET issue == NewLinearIssue(Len(linStore) + 1,
                                   LinearArgs(hinput[i][1], githubIssue[i][1]))
       IN /\ linStore' = Append(linStore, issue)
          /\ createdIssue' = [createdIssue EXCEPT ![i] = Some(issue)]
    /\ hpc' = [hpc EXCEPT ![i] = "awaitLinearIssue"]
    /\ UNCHANGED <<hinput, githubIssue, linearIssue, hresult, herror,
                   ghCalls, linCalls, ghStore>>
    /\ UNCHANGED tvars
    /\ UNCHANGED <<avars, uvars, rvars>>

\* variant: a payload without issue yields a partial result
LinearCreateNoIssue_Partial(i) ==
    /\ hpc[i] = "awaitLinearCreate"
    /\ hresult' = [hresult EXCEPT ![i] =
                      Some([githubIssue     |-> githubIssue[i],
                            linearIssue     |-> Undefined,
                            crossReferenced |-> FALSE,
                            platform        |-> "hybrid"])]
    /\ hpc' = [hpc EXCEPT ![i] = "returned"]
    /\ UNCHANGED <<hinput, githubIssue, linearIssue, createdIssue, herror,
                   ghCalls, linCalls, ghStore, linStore>>
    /\ UNCHANGED tvars
    /\ UNCHANGED <<avars, uvars, rvars>>

\* linearClient.createIssue resolves with a payload without issue (line 301)
LinearCreateNoIssue(i) ==
    /\ hpc[i] = "awaitLinearCreate"
    /\ Throw(i, ErrNoLinearIssue)
    /\ UNCHANGED <<hinput, githubIssue, linearIssue, createdIssue, hresult,
                   ghCalls, linCalls, ghStore, linStore>>
    /\ UNCHANGED tvars
    /\ UNCHANGED <<avars, uvars, rvars>>

\* variant: the GitHub issue is deleted again when the Linear create fails
LinearCreateReject_Rollback(i) ==
    /\ hpc[i] = "awaitLinearCreate"
    /\ Throw(i, LinearApiError)
    /\ ghStore' = SelectSeq(ghStore, LAMBDA g : g # githubIssue[i][1])
    /\ UNCHANGED <<hinput, githubIssue, linearIssue, createdIssue, hresult,
                   ghCalls, linCalls, linStore>>
    /\ UNCHANGED tvars
    /\ UNCHANGED <<avars, uvars, rvars>>

\* linearClient.createIssue rejects (line 298)
LinearCreateReject(i) ==
    /\ hpc[i] = "awaitLinearCreate"
    /\ Throw(i, LinearApiError)
    /\ UNCHANGED <<hinput, githubIssue, linearIssue, createdIssue, hresult,
                   ghCalls, linCalls, ghStore, linStore>>
    /\ UNCHANGED tvars
    /\ UNCHANGED <<avars, uvars, rvars>>

\* await issuePayload.issue resolves (line 299); the try block is entered
LinearIssueResolve(i) ==
    /\ hpc[i] = "awaitLinearIssue"
    /\ hpc' = [hpc EXCEPT ![i] = "awaitLinearDetails"]
    /\ UNCHANGED <<hinput, githubIssue, linearIssue, createdIssue, hresult, herror,
                   ghCalls, linCalls, ghStore, linStore>>
    /\ UNCHANGED tvars
    /\ UNCHANGED <<avars, uvars, rvars>>

\* await issuePayload.issue rejects (line 299), outside the try block
LinearIssueReject(i) ==
    /\ hpc[i] = "awaitLinearIssue"
    /\ Throw(i, LinearFetchError)
    /\ UNCHANGED <<hinput, githubIssue, linearIssue, createdIssue, hresult,
                   ghCalls, linCalls, ghStore, linStore>>
    /\ UNCHANGED tvars
    /\ UNCHANGED <<avars, uvars, rvars>>

\* createLinearIssue returns issue; createHybridIssue returns lines 595-600
ReturnHybrid(i, issue) ==
    /\ linearIssue' = [linearIssue EXCEPT ![i] = Some(issue)]
    /\ hresult' = [hresult EXCEPT ![i] =
                      Some([githubIssue     |-> githubIssue[i],
                            linearIssue     |-> Some(issue),
                            crossReferenced |-> TRUE,
                            platform        |-> "hybrid"])]
    /\ hpc' = [hpc EXCEPT ![i] = "returned"]

\* variant: the GitHub issue is updated with a link to the Linear issue
LinearDetailsResolve_BackLink(i) ==
    /\ hpc[i] = "awaitLinearDetails"
    /\ ReturnHybrid(i, FullLinearIssue(createdIssue[i][1]))
    /\ ghStore' = [n \in 1..Len(ghStore) |->
                      IF ghStore[n] = githubIssue[i][1]
                      THEN [ghStore[n] EXCEPT !.body =
                               @ \o "\n\nLinked Linear Issue: " \o createdIssue[i][1].url]
                      ELSE ghStore[n]]
    /\ UNCHANGED <<hinput, githubIssue, createdIssue, herror,
                   ghCalls, linCalls, linStore>>
    /\ UNCHANGED tvars
    /\ UNCHANGED <<avars, uvars, rvars>>

\* state and assignee are read (lines 306-307): the full record is returned
LinearDetailsResolve(i) ==
    /\ hpc[i] = "awaitLinearDetails"
    /\ ReturnHybrid(i, FullLinearIssue(createdIssue[i][1]))
    /\ UNCHANGED <<hinput, githubIssue, createdIssue, herror,
                   ghCalls, linCalls, ghStore, linStore>>
    /\ UNCHANGED tvars
    /\ UNCHANGED <<avars, uvars, rvars>>

\* variant: a failed read of state or assignee is thrown to the caller
LinearDetailsReject_Throws(i) ==
    /\ hpc[i] = "awaitLinearDetails"
    /\ Throw(i, LinearFetchError)
    /\ UNCHANGED <<hinput, githubIssue, linearIssue, createdIssue, hresult,
                   ghCalls, linCalls, ghStore, linStore>>
    /\ UNCHANGED tvars
    /\ UNCHANGED <<avars, uvars, rvars>>

\* reading state or assignee fails: the catch block returns the basic record
LinearDetailsReject(i) ==
    /\ hpc[i] = "awaitLinearDetails"
    /\ ReturnHybrid(i, FallbackLinearIssue(createdIssue[i][1]))
    /\ UNCHANGED <<hinput, githubIssue, createdIssue, herror,
                   ghCalls, linCalls, ghStore, linStore>>
    /\ UNCHANGED tvars
    /\ UNCHANGED <<avars, uvars, rvars>>

InitHybrid ==
    /\ tpc = "call"
    /\ title = ""
    /\ description = ""
    /\ labels = <<>>
    /\ scores = Undefined
    /\ decision = Undefined
    /\ HybridIdle
    /\ AgentIdle
    /\ UsageIdle
    /\ ReleaseIdle

NextHybrid ==
    \E i \in Invocations :
        \/ \E input \in HybridInputs : CreateHybridIssue(i, input)
        \/ GitHubResolve(i)
        \/ GitHubReject(i)
        \/ LinearCreateResolve(i)
        \/ LinearCreateNoIssue(i)
        \/ LinearCreateReject(i)
        \/ LinearIssueResolve(i)
        \/ LinearIssueReject(i)
        \/ LinearDetailsResolve(i)
        \/ LinearDetailsReject(i)

SpecHybrid == InitHybrid /\ [][NextHybrid]_vars

(***************************************************************************)
(* Properties of createHybridIssue, checked under SpecHybrid               *)
(***************************************************************************)
Called(i) == hinput[i] # Undefined
Input(i) == hinput[i][1]

\* an optional string that is absent or empty
Missing(x) == x = Undefined \/ x = Some("")

ValidationErrors == {ErrPlatform, ErrOwnerRepo, ErrTeamId}

\* C9: a call with platform other than hybrid, or without owner or repo, or
\* without teamId, fails with a validation error and has invoked neither
\* createGitHubIssue nor createLinearIssue.
C9_ValidationBeforeCalls ==
    \A i \in Invocations :
        (/\ Called(i)
         /\ \/ Input(i).platform # "hybrid"
            \/ Missing(Input(i).owner)
            \/ Missing(Input(i).repo)
            \/ Missing(Input(i).teamId))
        => /\ hpc[i] = "thrown"
           /\ herror[i] # Undefined
           /\ herror[i][1] \in ValidationErrors
           /\ ghCalls[i] = 0
           /\ linCalls[i] = 0
           /\ githubIssue[i] = Undefined
           /\ hresult[i] = Undefined

\* a hybrid call with owner and repo but without teamId has failed
C9_Witness ==
    \E i \in Invocations :
        /\ Called(i)
        /\ Input(i).platform = "hybrid"
        /\ ~Missing(Input(i).owner)
        /\ ~Missing(Input(i).repo)
        /\ Input(i).teamId = Undefined
        /\ hpc[i] = "thrown"
        /\ herror[i] = Some(ErrTeamId)

\* the engineering-side create was invoked, is no longer pending and
\* returned no issue
GitHubCreateFailed(i) ==
    ghCalls[i] > 0 /\ hpc[i] # "awaitGitHub" /\ githubIssue[i] = Undefined

\* C10: the business-side create is invoked only after the engineering-side
\* create has returned an issue; if the engineering-side create fails, the
\* business-side create is never invoked and the caller receives that error.
C10_SequentialCreates ==
    \A i \in Invocations :
        /\ hpc[i] = "awaitGitHub" => linCalls[i] = 0
        /\ linCalls[i] > 0 =>
              /\ githubIssue[i] # Undefined
              /\ githubIssue[i][1] \in Range(ghStore)
        /\ GitHubCreateFailed(i) =>
              /\ linCalls[i] = 0
              /\ hpc[i] = "thrown"
              /\ herror[i] = Some(GitHubApiError)
              /\ hresult[i] = Undefined

\* one invocation's engineering-side create failed while another invocation
\* has reached its business-side create
C10_Witness ==
    \E i, j \in Invocations :
        /\ GitHubCreateFailed(i)
        /\ hpc[i] = "thrown"
        /\ linCalls[j] = 1
        /\ githubIssue[j] # Undefined

\* the errors with which the business-side create can fail
LinearErrors == {ErrLinearTeamId, LinearApiError, ErrNoLinearIssue, LinearFetchError}

\* C11: when the engineering-side create succeeded and the business-side
\* create failed, createHybridIssue returns no result, the caller receives the
\* second call's error, GitHub is not called again and the engineering-side
\* record still exists.
C11_NoCompensation ==
    \A i \in Invocations :
        (hpc[i] = "thrown" /\ githubIssue[i] # Undefined) =>
            /\ hresult[i] = Undefined
            /\ herror[i] # Undefined
            /\ herror[i][1] \in LinearErrors
            /\ ghCalls[i] = 1
            /\ githubIssue[i][1] \in Range(ghStore)

\* the Linear API rejected the create after the GitHub issue was created
C11_Witness ==
    \E i \in Invocations :
        /\ hpc[i] = "thrown"
        /\ githubIssue[i] # Undefined
        /\ herror[i] = Some(LinearApiError)
        /\ linStore = <<>>

\* String.prototype.endsWith
EndsWith(s, k) == Len(s) >= Len(k) /\ SubSeq(s, Len(s) - Len(k) + 1, Len(s)) = k

\* C12: on the success path the description of the business-side record
\* contains (as its last part) the URL of the engineering-side record that
\* the same invocation created.
C12_DescriptionLinksGitHubIssue ==
    \A i \in Invocations :
        hpc[i] = "returned" =>
            /\ EndsWith(linearIssue[i][1].description, githubIssue[i][1].url)
            /\ \E n \in 1..Len(linStore) :
                  /\ linStore[n].id = linearIssue[i][1].id
                  /\ EndsWith(linStore[n].description, githubIssue[i][1].url)

\* two invocations have returned, each with its own GitHub URL
C12_Witness ==
    \E i, j \in Invocations :
        /\ hpc[i] = "returned"
        /\ hpc[j] = "returned"
        /\ githubIssue[i][1].url # githubIssue[j][1].url

\* C13: a result is returned only when both creates succeeded; every result
\* holds the engineering-side and the business-side record and has
\* crossReferenced = true.
C13_CompleteResultOnly ==
    \A i \in Invocations :
        /\ hpc[i] = "returned" <=> hresult[i] # Undefined
        /\ hresult[i] # Undefined =>
              /\ herror[i] = Undefined
              /\ hresult[i][1].githubIssue # Undefined
              /\ hresult[i][1].githubIssue[1] \in Range(ghStore)
              /\ hresult[i][1].linearIssue # Undefined
              /\ \E n \in 1..Len(linStore) :
                    linStore[n].id = hresult[i][1].linearIssue[1].id
              /\ hresult[i][1].crossReferenced = TRUE

\* a result built from the fallback record of createLinearIssue
C13_Witness ==
    \E i \in Invocations :
        /\ hresult[i] # Undefined
        /\ hresult[i][1].linearIssue[1].status = Undefined

(***************************************************************************)
(* prepareAgentReadyIssue (lines 603-651), generateMCPLabels (653-697)     *)
(***************************************************************************)
agentIncompatibleKeywords == <<
    "requires human decision", "needs stakeholder approval", "complex architecture",
    "requires domain expertise", "customer interaction", "legal review",
    "multiple team coordination", "breaking change" >>

complexityIndicators ==
    [simple   |-> <<"bug fix", "typo", "update text", "add field", "simple validation">>,
     moderate |-> <<"new endpoint", "feature enhancement", "integration", "refactor">>,
     complex  |-> <<"architecture", "migration", "security",
                    "performance optimization", "multi-component">>]

\* keywords.some(k => text.includes(k))
SomeIncluded(keywords, text) ==
    \E n \in 1..Len(keywords) : Includes(text, keywords[n])

\* lines 604-606: title and body are lower-cased, then joined
IssueTextOf(t, b) == ToLowerCase(t) \o " " \o ToLowerCase(b)

\* variant: complex issues are never agent-compatible
AgentCompatible_NotComplex(text) ==
    /\ ~SomeIncluded(agentIncompatibleKeywords, text)
    /\ ~SomeIncluded(complexityIndicators.complex, text)

AgentCompatible(text) == ~SomeIncluded(agentIncompatibleKeywords, text)

\* variant: the moderate indicators are checked first
Complexity_ModerateFirst(text) ==
    IF SomeIncluded(complexityIndicators.moderate, text)
    THEN [complexityLevel |-> "moderate", estimatedHours |-> 8]
    ELSE IF SomeIncluded(complexityIndicators.complex, text)
    THEN [complexityLevel |-> "complex", estimatedHours |-> 16]
    ELSE [complexityLevel |-> "simple", estimatedHours |-> 2]

\* complexityLevel and estimatedHours after lines 619-635
Complexity(text) ==
    IF SomeIncluded(complexityIndicators.complex, text)
    THEN [complexityLevel |-> "complex", estimatedHours |-> 16]
    ELSE IF SomeIncluded(complexityIndicators.moderate, text)
    THEN [complexityLevel |-> "moderate", estimatedHours |-> 8]
    ELSE [complexityLevel |-> "simple", estimatedHours |-> 2]

\* variant: the topic checks form an else-if chain
Prerequisites_FirstOnly(text) ==
    IF Includes(text, "database") THEN <<"Database access required">>
    ELSE IF Includes(text, "test") THEN <<"Test environment setup">>
    ELSE IF Includes(text, "api") THEN <<"API documentation review">>
    ELSE IF Includes(text, "security") THEN <<"Security requirements review">>
    ELSE <<>>

\* the local prerequisites after lines 637-642
Prerequisites(text) ==
    PushIf(Includes(text, "database"), "Database access required")
    \o PushIf(Includes(text, "test"), "Test environment setup")
    \o PushIf(Includes(text, "api"), "API documentation review")
    \o PushIf(Includes(text, "security"), "Security requirements review")

\* prepareAgentReadyIssue(issue) for an issue with title t and body b
prepareAgentReadyIssue(t, b) ==
    LET text == IssueTextOf(t, b)
        complexity == Complexity(text)
        prerequisites == Prerequisites(text)
    IN [issue           |-> [title |-> t, body |-> b],
        agentCompatible |-> AgentCompatible(text),
        complexityLevel |-> complexity.complexityLevel,
        estimatedHours  |-> complexity.estimatedHours,
        prerequisities  |-> IF Len(prerequisites) > 0 THEN Some(prerequisites)
                            ELSE Undefined]

\* variant: the agent labels do not depend on agentCompatible
generateMCPLabels_AlwaysAvailable(t, b, platform) ==
    LET agentReady == prepareAgentReadyIssue(t, b)
    IN IF platform = "github"
       THEN <<"mcp/agent-ready", "agent/available",
              "complexity/" \o agentReady.complexityLevel>>
       ELSE <<>>

\* generateMCPLabels(issue, platform) for an issue with title t and body b
generateMCPLabels(t, b, platform) ==
    LET text == ToLowerCase(t \o " " \o b)
        agentReady == prepareAgentReadyIssue(t, b)
    IN (IF platform = "github"
        THEN <<"mcp/agent-ready">>
             \o PushIf(Includes(text, "sync") \/ Includes(text, "linear"), "mcp/synced")
             \o PushIf(Includes(text, "human") \/ Includes(text, "decision")
                       \/ Includes(text, "approval"), "mcp/needs-human")
             \o PushIf(Includes(text, "business") \/ Includes(text, "product")
                       \/ Includes(text, "strategy"), "mcp/business-input")
             \o (IF agentReady.agentCompatible
                 THEN <<"agent/available", "complexity/" \o agentReady.complexityLevel>>
                 ELSE <<>>)
        ELSE <<>>)
       \o (IF platform = "linear"
           THEN PushIf(Includes(text, "implement") \/ Includes(text, "code")
                       \/ Includes(text, "technical"), "Technical Implementation")
                \o PushIf(Includes(text, "agent") \/ Includes(text, "copilot"),
                          "Agent Available")
                \o PushIf(Includes(text, "research") \/ Includes(text, "analysis")
                          \/ Includes(text, "investigate"), "Research Required")
           ELSE <<>>)

(***************************************************************************)
(* Callers of the agent-readiness functions: the issue is drawn from       *)
(* bounded sets                                                            *)
(***************************************************************************)
IssueTitles == {"", "Refactor login", "Legal review", "Copilot research"}

BodyPhrases == {"requires stakeholder approval", "needs stakeholder approval",
                "Database migration", "security", "new endpoint", "bug fix",
                "API security test", "human decision"}

\* all bodies made of at most n phrases separated by one space
RECURSIVE BodiesUpTo(_)
BodiesUpTo(n) ==
    IF n = 0 THEN {""}
    ELSE LET shorter == BodiesUpTo(n - 1)
         IN shorter \cup BodyPhrases
            \cup {b \o " " \o p : b \in shorter \ {""}, p \in BodyPhrases}

IssueBodies == BodiesUpTo(MaxBodyPhrases)

InitAgent ==
    /\ tpc = "call"
    /\ title = ""
    /\ description = ""
    /\ labels = <<>>
    /\ scores = Undefined
    /\ decision = Undefined
    /\ HybridIdle
    /\ UsageIdle
    /\ ReleaseIdle
    /\ ititle \in IssueTitles
    /\ ibody \in IssueBodies
    /\ assessment = Undefined
    /\ generated = Undefined

\* one call of prepareAgentReadyIssue on the issue
PrepareAgentReadyIssue ==
    /\ assessment = Undefined
    /\ assessment' = Some(prepareAgentReadyIssue(ititle, ibody))
    /\ UNCHANGED <<ititle, ibody, generated>>
    /\ UNCHANGED <<tvars, hvars, uvars, rvars>>

\* one call of generateMCPLabels on the issue
GenerateMCPLabels(platform) ==
    /\ generated = Undefined
    /\ generated' = Some([platform |-> platform,
                          labels   |-> generateMCPLabels(ititle, ibody, platform)])
    /\ UNCHANGED <<ititle, ibody, assessment>>
    /\ UNCHANGED <<tvars, hvars, uvars, rvars>>

NextAgent ==
    \/ PrepareAgentReadyIssue
    \/ \E platform \in {"github", "linear"} : GenerateMCPLabels(platform)

SpecAgent == InitAgent /\ [][NextAgent]_vars

(***************************************************************************)
(* Properties of prepareAgentReadyIssue and generateMCPLabels, checked     *)
(* under SpecAgent                                                         *)
(***************************************************************************)
Assessed == assessment # Undefined
A == assessment[1]
IssueText == IssueTextOf(ititle, ibody)

DisqualifyingPhrases ==
    {"requires human decision", "needs stakeholder approval", "complex architecture",
     "requires domain expertise", "customer interaction", "legal review",
     "multiple team coordination", "breaking change"}

\* C14 as claimed: a text containing "requires stakeholder approval" is never
\* agent-compatible, and agentCompatible is false exactly when a phrase of
\* the disqualifying list occurs.
C14_RequiresStakeholderApproval ==
    Assessed =>
        \A text \in {IssueText} :
            /\ Includes(text, "requires stakeholder approval") => ~A.agentCompatible
            /\ ~A.agentCompatible <=> \E k \in DisqualifyingPhrases : Includes(text, k)

\* C14 amended: a text containing "needs stakeholder approval" is never
\* agent-compatible, and agentCompatible is false exactly when a phrase of
\* the disqualifying list occurs, whatever complexity indicators occur.
C14_NeedsStakeholderApproval ==
    Assessed =>
        \A text \in {IssueText} :
            /\ Includes(text, "needs stakeholder approval") => ~A.agentCompatible
            /\ ~A.agentCompatible <=> \E k \in DisqualifyingPhrases : Includes(text, k)

\* "needs stakeholder approval" next to a complex indicator
C14_Witness ==
    /\ Assessed
    /\ Includes(IssueText, "needs stakeholder approval")
    /\ Includes(IssueText, "security")
    /\ ~A.agentCompatible

ComplexIndicators ==
    {"architecture", "migration", "security", "performance optimization", "multi-component"}
ModerateIndicators == {"new endpoint", "feature enhancement", "integration", "refactor"}

\* C15: complex with 16 hours if a complex indicator occurs, otherwise
\* moderate with 8 if a moderate indicator occurs, otherwise simple with 2,
\* also when the issue is not agent-compatible.
C15_ComplexityPrecedence ==
    Assessed =>
        \A text \in {IssueText} :
            IF \E k \in ComplexIndicators : Includes(text, k)
            THEN A.complexityLevel = "complex" /\ A.estimatedHours = 16
            ELSE IF \E k \in ModerateIndicators : Includes(text, k)
            THEN A.complexityLevel = "moderate" /\ A.estimatedHours = 8
            ELSE A.complexityLevel = "simple" /\ A.estimatedHours = 2

\* complex and moderate indicators together, on an incompatible issue
C15_Witness ==
    /\ Assessed
    /\ \E k \in ComplexIndicators : Includes(IssueText, k)
    /\ \E k \in ModerateIndicators : Includes(IssueText, k)
    /\ ~A.agentCompatible
    /\ A.complexityLevel = "complex"

\* the prerequisite entry of each topic keyword, in the order of the checks
TopicEntries ==
    << <<"database", "Database access required">>,
       <<"test", "Test environment setup">>,
       <<"api", "API documentation review">>,
       <<"security", "Security requirements review">> >>

\* the entries returned: none when the field is undefined
ReturnedPrerequisites == IF A.prerequisities = Undefined THEN <<>> ELSE A.prerequisities[1]

\* C16: the prerequisites hold one entry for each topic keyword that occurs
\* in the text, none for the others, in the fixed order, without duplicates.
C16_PrerequisitesPerTopic ==
    Assessed =>
        \A text \in {IssueText}, ps \in {ReturnedPrerequisites} :
            /\ \A n \in 1..4 :
                  Includes(text, TopicEntries[n][1])
                      <=> \E j \in 1..Len(ps) : ps[j] = TopicEntries[n][2]
            /\ \A j \in 1..Len(ps) : \E n \in 1..4 : ps[j] = TopicEntries[n][2]
            /\ \A j, k \in 1..Len(ps) :
                  j < k => \E n, m \in 1..4 :
                              /\ n < m
                              /\ ps[j] = TopicEntries[n][2]
                              /\ ps[k] = TopicEntries[m][2]
            /\ Len(ps) <= 4

\* all four topic keywords occur
C16_Witness ==
    /\ Assessed
    /\ Len(ReturnedPrerequisites) = 4

Generated == generated # Undefined
G == generated[1]

\* the labels of the form complexity/<level>
ComplexityLabels(ls) == {j \in 1..Len(ls) : StartsWith(ls[j], "complexity/")}

\* C19: for the github platform generateMCPLabels emits agent/available and
\* exactly one complexity/<level> label, with the level prepareAgentReadyIssue
\* computes for the same issue, exactly when prepareAgentReadyIssue finds the
\* issue agent-compatible; for the linear platform it emits neither.
C19_AgentLabelsIffCompatible ==
    (Assessed /\ Generated) =>
        IF G.platform = "github" /\ A.agentCompatible
        THEN /\ "agent/available" \in Range(G.labels)
             /\ Cardinality(ComplexityLabels(G.labels)) = 1
             /\ ("complexity/" \o A.complexityLevel) \in Range(G.labels)
        ELSE /\ "agent/available" \notin Range(G.labels)
             /\ ComplexityLabels(G.labels) = {}

\* a compatible complex issue labelled for github
C19_Witness ==
    /\ Assessed
    /\ Generated
    /\ G.platform = "github"
    /\ A.agentCompatible
    /\ A.complexityLevel = "complex"
    /\ "complexity/complex" \in Range(G.labels)

(***************************************************************************)
(* Properties of the label subsets of triageIssue, checked under SpecTriage *)
(***************************************************************************)
\* the labels of an optional list: none when it is undefined
LabelsOf(opt) == IF opt = Undefined THEN {} ELSE Range(opt[1])

\* C17: githubLabels and mcpLabels are present exactly for github and hybrid
\* decisions, linearLabels exactly for linear and hybrid decisions, and every
\* present subset holds only labels of suggestedLabels.
C17_SubsetsPresentPerPlatform ==
    Returned =>
        /\ D.githubLabels # Undefined <=> D.platform \in {"github", "hybrid"}
        /\ D.mcpLabels # Undefined <=> D.platform \in {"github", "hybrid"}
        /\ D.linearLabels # Undefined <=> D.platform \in {"linear", "hybrid"}
        /\ LabelsOf(D.githubLabels) \subseteq Range(D.suggestedLabels)
        /\ LabelsOf(D.mcpLabels) \subseteq Range(D.suggestedLabels)
        /\ LabelsOf(D.linearLabels) \subseteq Range(D.suggestedLabels)

\* a hybrid decision with labels in all three subsets
C17_Witness ==
    /\ Returned
    /\ D.platform = "hybrid"
    /\ LabelsOf(D.githubLabels) # {}
    /\ LabelsOf(D.mcpLabels) # {}
    /\ LabelsOf(D.linearLabels) # {}

\* the number of populated subsets that hold label l
SubsetsHolding(l) ==
    (IF l \in LabelsOf(D.githubLabels) THEN 1 ELSE 0)
    + (IF l \in LabelsOf(D.linearLabels) THEN 1 ELSE 0)
    + (IF l \in LabelsOf(D.mcpLabels) THEN 1 ELSE 0)

\* C18: every label of suggestedLabels belongs to exactly one of the
\* subsets githubLabels, linearLabels, mcpLabels.
C18_LabelsPartitioned ==
    Returned => \A l \in Range(D.suggestedLabels) : SubsetsHolding(l) = 1

(***************************************************************************)
(* trackUsage (src/api/middleware/usage.ts) in front of the tracked routes *)
(* of src/api/index.ts, for the requests of one user within one month      *)
(***************************************************************************)
\* the number Infinity, as an absent finite limit
Infinity == <<>>

TIER_LIMITS ==
    [free       |-> <<50>>,
     developer  |-> <<500>>,
     team       |-> <<2000>>,
     enterprise |-> Infinity]

Tiers == {"free", "developer", "team", "enterprise"}

\* (req.auth.sessionClaims?.metadata?.tier as Tier) || "free"
UserTier == IF utier = Undefined THEN "free" ELSE utier[1]

\* monthlyUsage >= usageLimit
AtLeast(monthlyUsage, usageLimit) ==
    usageLimit # Infinity /\ monthlyUsage >= usageLimit[1]

Slots == 1..MaxInFlight

\* requests of the month that have arrived and are not yet counted in served
InRoute == Cardinality({r \in Slots : upc[r] = "routing"})

\* the requests considered: MaxOverLimit beyond the finite limit of the tier
RequestCap ==
    (IF TIER_LIMITS[UserTier] = Infinity THEN 0 ELSE TIER_LIMITS[UserTier][1])
    + MaxOverLimit

InitUsage ==
    /\ tpc = "call"
    /\ title = ""
    /\ description = ""
    /\ labels = <<>>
    /\ scores = Undefined
    /\ decision = Undefined
    /\ HybridIdle
    /\ AgentIdle
    /\ ReleaseIdle
    /\ uuser \in {Undefined, Some("user_1")}
    /\ utier \in {Undefined} \cup {Some(t) : t \in Tiers}
    /\ upc = [r \in Slots |-> "idle"]
    /\ usageTable = 0
    /\ served = 0
    /\ putFailures = 0
    /\ warned = FALSE

\* a request reaches trackUsage: the finish listener is registered and
\* next() passes the request on to the route (lines 16-25, 85)
TrackUsage(r) ==
    /\ upc[r] = "idle"
    /\ served + InRoute < RequestCap
    /\ upc' = [upc EXCEPT ![r] = "routing"]
    /\ UNCHANGED <<uuser, utier, usageTable, served, putFailures, warned>>
    /\ UNCHANGED <<tvars, hvars, avars, rvars>>

\* the route handles the request and the response finishes; the listener
\* returns at once when the request has no user id (lines 25-31)
RouteResponds(r) ==
    /\ upc[r] = "routing"
    /\ served' = served + 1
    /\ upc' = [upc EXCEPT ![r] = IF uuser = Undefined THEN "idle" ELSE "put"]
    /\ UNCHANGED <<uuser, utier, usageTable, putFailures, warned>>
    /\ UNCHANGED <<tvars, hvars, avars, rvars>>

\* dynamoDB.put stores the usage record (lines 44-49)
PutResolves(r) ==
    /\ upc[r] = "put"
    /\ usageTable' = usageTable + 1
    /\ upc' = [upc EXCEPT ![r] = "query"]
    /\ UNCHANGED <<uuser, utier, served, putFailures, warned>>
    /\ UNCHANGED <<tvars, hvars, avars, rvars>>

\* dynamoDB.put fails: the catch block logs and the listener ends (79-82)
PutRejects(r) ==
    /\ upc[r] = "put"
    /\ putFailures < MaxPutFailures
    /\ putFailures' = putFailures + 1
    /\ upc' = [upc EXCEPT ![r] = "idle"]
    /\ UNCHANGED <<uuser, utier, usageTable, served, warned>>
    /\ UNCHANGED <<tvars, hvars, avars, rvars>>

\* dynamoDB.query returns this month's records; reaching the limit of the
\* tier only logs a warning (lines 68-78)
QueryResolves(r) ==
    /\ upc[r] = "query"
    /\ warned' = (warned \/ AtLeast(usageTable, TIER_LIMITS[UserTier]))
    /\ upc' = [upc EXCEPT ![r] = "idle"]
    /\ UNCHANGED <<uuser, utier, usageTable, served, putFailures>>
    /\ UNCHANGED <<tvars, hvars, avars, rvars>>

\* dynamoDB.query fails: the catch block logs and the listener ends (79-82)
QueryRejects(r) ==
    /\ upc[r] = "query"
    /\ upc' = [upc EXCEPT ![r] = "idle"]
    /\ UNCHANGED <<uuser, utier, usageTable, served, putFailures, warned>>
    /\ UNCHANGED <<tvars, hvars, avars, rvars>>

NextUsage ==
    \E r \in Slots :
        \/ TrackUsage(r)
        \/ RouteResponds(r)
        \/ PutResolves(r)
        \/ PutRejects(r)
        \/ QueryResolves(r)
        \/ QueryRejects(r)

SpecUsage == InitUsage /\ [][NextUsage]_vars

\* C20: once the recorded usage of the month has reached the limit of the
\* user's tier (free 50, developer 500, team 2000), trackUsage passes no
\* further request on to a tracked route.
C20_LimitEnforced ==
    [][\A r \in Slots :
          (upc[r] = "idle" /\ upc'[r] = "routing")
              => ~AtLeast(usageTable, TIER_LIMITS[UserTier])]_vars

(***************************************************************************)
(* Callers of triageIssue whose description is a short sentence over the   *)
(* words the type and component labels are derived from                    *)
(***************************************************************************)
LabelWords ==
    {"bug", "error", "feature", "implement", "security", "infrastructure",
     "devops", "api", "web", "frontend", "database", "client", "epic"}

\* all sentences of at most n words separated by one space
RECURSIVE SentencesUpTo(_)
SentencesUpTo(n) ==
    IF n = 0 THEN {""}
    ELSE LET shorter == SentencesUpTo(n - 1)
         IN shorter \cup LabelWords
            \cup {t \o " " \o w : t \in shorter \ {""}, w \in LabelWords}

Sentences == SentencesUpTo(MaxWords)

WordTitles == {"", "Frontend API"}

InitTriageWords ==
    /\ tpc = "call"
    /\ title \in WordTitles
    /\ description \in Sentences
    /\ labels = <<>>
    /\ scores = Undefined
    /\ decision = Undefined
    /\ HybridIdle
    /\ AgentIdle
    /\ UsageIdle
    /\ ReleaseIdle

SpecTriageWords == InitTriageWords /\ [][NextTriage]_vars

\* the positions of the labels of the form type/<kind>
TypeLabels(ls) == {j \in 1..Len(ls) : StartsWith(ls[j], "type/")}

\* the type label the fixed priority selects for a text, if any
PriorityType(text) ==
    IF Includes(text, "bug") \/ Includes(text, "error") THEN {"type/bug"}
    ELSE IF Includes(text, "feature") \/ Includes(text, "implement")
         THEN {"type/feature"}
    ELSE IF Includes(text, "security") THEN {"type/security"}
    ELSE IF Includes(text, "infrastructure") \/ Includes(text, "devops")
         THEN {"type/infrastructure"}
    ELSE {}

\* C21: for a github or hybrid decision suggestedLabels holds at most one
\* type/* label, the first match of bug > feature > security >
\* infrastructure, and each component label is present exactly when its own
\* word occurs in the text, whatever the type label is.
C21_TypeLabelFirstMatch ==
    (Returned /\ D.platform \in {"github", "hybrid"}) =>
        \A text \in {CallText} :
            /\ Cardinality(TypeLabels(D.suggestedLabels)) <= 1
            /\ {D.suggestedLabels[j] : j \in TypeLabels(D.suggestedLabels)}
                  = PriorityType(text)
            /\ ("component/api" \in Range(D.suggestedLabels))
                  <=> Includes(text, "api")
            /\ ("component/web" \in Range(D.suggestedLabels))
                  <=> (Includes(text, "web") \/ Includes(text, "frontend"))
            /\ ("component/database" \in Range(D.suggestedLabels))
                  <=> Includes(text, "database")

\* feature wins over security, next to two component labels
C21_Witness ==
    /\ Returned
    /\ D.platform = "github"
    /\ Includes(CallText, "security")
    /\ "type/feature" \in Range(D.suggestedLabels)
    /\ "component/web" \in Range(D.suggestedLabels)
    /\ "component/api" \in Range(D.suggestedLabels)

(***************************************************************************)
(* The reasoning string of triageIssue, checked under SpecTriage           *)
(***************************************************************************)
\* the keywords of a vocabulary found in the text or the labels, in order
Matched(keywords, text, labelText) ==
    SelectSeq(keywords, LAMBDA k : Includes(text, k) \/ Includes(labelText, k))

ReasoningOpening ==
    [hybrid |-> "Hybrid issue detected requiring both business and technical work. ",
     github |-> "Engineering issue detected - requires code changes. ",
     linear |-> "Business/product issue detected - strategic or operational focus. "]

ReasoningClosing ==
    [hybrid |-> ". Will create coordinated issues in both GitHub (for engineering) and Linear (for business coordination).",
     github |-> ". Best managed on GitHub for Copilot agent integration and technical collaboration.",
     linear |-> ". Best managed on Linear for product workflow and business coordination."]

ReasoningFallback ==
    [hybrid |-> "complex project indicators",
     github |-> "technical indicators",
     linear |-> "business indicators"]

\* C22: the reasoning string is the sentence of the resolved platform around
\* the list of every matched keyword, engineering then business then hybrid;
\* the fallback phrase stands in for the list exactly when nothing matched.
C22_ReasoningListsAllMatches ==
    Returned =>
        \A matched \in {Matched(engineeringKeywords, CallText, CallLabelText)
                         \o Matched(businessKeywords, CallText, CallLabelText)
                         \o Matched(hybridKeywords, CallText, CallLabelText)} :
            D.reasoning =
                ReasoningOpening[D.platform] \o "Keywords: "
                \o (IF matched = <<>> THEN ReasoningFallback[D.platform]
                    ELSE Join(matched, ", "))
                \o ReasoningClosing[D.platform]

\* a github decision whose text also matched business and hybrid keywords
C22_Witness ==
    /\ Returned
    /\ D.platform = "github"
    /\ B > 0
    /\ H > 0
    /\ Includes(D.reasoning, "epic")

(***************************************************************************)
(* Further properties of createHybridIssue, checked under SpecHybrid       *)
(***************************************************************************)
\* the invocations that have returned a result
Succeeded == {i \in Invocations : hpc[i] = "returned"}

\* C23: one invocation calls the engineering-side create at most once and
\* the business-side create at most once, whatever the outcomes; when k
\* invocations with identical input have succeeded and no other has created
\* anything, there are exactly k engineering-side and k business-side
\* records, all distinct.
C23_NoRetryNotIdempotent ==
    /\ \A i \in Invocations : ghCalls[i] <= 1 /\ linCalls[i] <= 1
    /\ ((\A i \in Invocations \ Succeeded : githubIssue[i] = Undefined)
        /\ (\A i, j \in Succeeded : hinput[i] = hinput[j]))
       => /\ Len(ghStore) = Cardinality(Succeeded)
          /\ Len(linStore) = Cardinality(Succeeded)
          /\ Cardinality(Range(ghStore)) = Cardinality(Succeeded)
          /\ Cardinality(Range(linStore)) = Cardinality(Succeeded)

\* two invocations with the same input have succeeded, a failed one aside
C23_Witness ==
    /\ Cardinality(Succeeded) = 2
    /\ \A i, j \in Succeeded : hinput[i] = hinput[j]
    /\ Len(ghStore) = 2
    /\ Len(linStore) = 2

\* C24: under any interleaving the records held by different invocations
\* are different records, the business-side record of an invocation links
\* the URL of its own engineering-side record and of no other, and a
\* result pairs the two records its own invocation created.
C24_InvocationsIndependent ==
    \A i \in Invocations :
        /\ \A j \in Invocations \ {i} :
              /\ (githubIssue[i] # Undefined /\ githubIssue[j] # Undefined)
                    => githubIssue[i][1].url # githubIssue[j][1].url
              /\ (createdIssue[i] # Undefined /\ createdIssue[j] # Undefined)
                    => createdIssue[i][1].id # createdIssue[j][1].id
              /\ (createdIssue[i] # Undefined /\ githubIssue[j] # Undefined)
                    => ~EndsWith(createdIssue[i][1].description, githubIssue[j][1].url)
        /\ createdIssue[i] # Undefined
              => EndsWith(createdIssue[i][1].description, githubIssue[i][1].url)
        /\ hpc[i] = "returned"
              => /\ hresult[i][1].githubIssue = githubIssue[i]
                 /\ hresult[i][1].linearIssue[1].id = createdIssue[i][1].id
                 /\ hresult[i][1].linearIssue[1].description
                        = createdIssue[i][1].description

\* two invocations have returned after their creates interleaved: the one
\* whose GitHub issue came first got its Linear issue second
C24_Witness ==
    \E i, j \in Invocations :
        /\ i # j
        /\ hpc[i] = "returned"
        /\ hpc[j] = "returned"
        /\ githubIssue[i][1] = ghStore[1]
        /\ createdIssue[j][1] = linStore[1]

\* the note appended to the body of the engineering-side record
TechNote ==
    "\n\n---\n**MCP Bridge**: This is the technical implementation part of a hybrid issue. Business coordination tracked in Linear."

\* C25: the engineering-side records are never changed or removed once
\* created; a body is the input description followed by the fixed note and
\* names neither the id nor the URL of a business-side record; every
\* result still reports crossReferenced = true.
C25_GitHubIssueNeverUpdated ==
    /\ [](\A i \in Invocations :
             /\ githubIssue[i] # Undefined =>
                   githubIssue[i][1].body = hinput[i][1].description \o TechNote
             /\ hpc[i] = "returned" => hresult[i][1].crossReferenced = TRUE)
    /\ [][/\ \A n \in 1..Len(ghStore) :
               Len(ghStore') >= n /\ ghStore'[n] = ghStore[n]
           /\ (linStore' # linStore \/ ghStore' # ghStore) =>
                 \A g \in Range(ghStore'), l \in Range(linStore') :
                     ~Includes(g.body, l.id) /\ ~Includes(g.body, l.url)]_vars

\* a returned result whose GitHub issue body is the description and the note
C25_Witness ==
    \E i \in Invocations :
        /\ hpc[i] = "returned"
        /\ hresult[i][1].crossReferenced = TRUE
        /\ hresult[i][1].githubIssue[1].body = "Ship it" \o TechNote
        /\ hresult[i][1].githubIssue[1] \in Range(ghStore)

\* the record createLinearIssue returns for a created issue, status aside
BasicRecordOf(i) ==
    /\ linearIssue[i] # Undefined
    /\ linearIssue[i][1].id = createdIssue[i][1].id
    /\ linearIssue[i][1].title = createdIssue[i][1].title
    /\ linearIssue[i][1].description = createdIssue[i][1].description
    /\ linearIssue[i][1].url = createdIssue[i][1].url
    /\ linearIssue[i][1].labels = <<>>

\* a step in which reading state or assignee ends, either way
DetailsStep(i) == hpc[i] = "awaitLinearDetails" /\ hpc'[i] # hpc[i]

\* C26 as claimed: once the Linear API has created the issue the invocation
\* never fails (a failed read of state or assignee still returns the created
\* record and a full result); after the create call it fails only with the
\* error for a payload without issue.
C26_NoErrorAfterCreate ==
    /\ [](\A i \in Invocations :
             /\ createdIssue[i] # Undefined => hpc[i] # "thrown"
             /\ (hpc[i] = "thrown" /\ linCalls[i] > 0
                    /\ herror[i] \notin {Some(ErrLinearTeamId), Some(LinearApiError)})
                   => herror[i] = Some(ErrNoLinearIssue))
    /\ [][\A i \in Invocations :
             DetailsStep(i) =>
                 (hpc'[i] = "returned" /\ BasicRecordOf(i)'
                  /\ hresult'[i] # Undefined
                  /\ hresult'[i][1].linearIssue = linearIssue'[i])]_vars

\* C26 amended: a failed read of state or assignee still returns the created
\* record and a full result; after the create call the invocation fails when
\* the payload carries no issue, and also when resolving the issue of the
\* payload fails, which leaves the created Linear issue behind.
C26_ErrorOnlyBeforeDetails ==
    /\ [](\A i \in Invocations :
             /\ (createdIssue[i] # Undefined /\ hpc[i] = "thrown")
                   => herror[i] = Some(LinearFetchError)
             /\ (hpc[i] = "thrown" /\ linCalls[i] > 0
                    /\ herror[i] \notin {Some(ErrLinearTeamId), Some(LinearApiError)})
                   => herror[i] \in {Some(ErrNoLinearIssue), Some(LinearFetchError)})
    /\ [][\A i \in Invocations :
             /\ DetailsStep(i) =>
                   (hpc'[i] = "returned" /\ BasicRecordOf(i)'
                    /\ hresult'[i] # Undefined
                    /\ hresult'[i][1].linearIssue = linearIssue'[i])
             /\ (hpc[i] # "thrown" /\ hpc'[i] = "thrown"
                    /\ createdIssue[i] # Undefined)
                   => hpc[i] = "awaitLinearIssue"]_vars

\* one invocation returned the fallback record after a failed read, another
\* failed while resolving the issue of the payload
C26_Witness ==
    \E i, j \in Invocations :
        /\ hpc[i] = "returned"
        /\ hresult[i][1].linearIssue[1].status = Undefined
        /\ hpc[j] = "thrown"
        /\ createdIssue[j] # Undefined
        /\ herror[j] = Some(LinearFetchError)

(***************************************************************************)
(* The chosen category and the confidence, checked under SpecTriage        *)
(***************************************************************************)
\* C27: the score of the chosen platform is a maximum of the three scores;
\* when the total is positive the confidence is at least 1.1/3, and it is
\* exactly 1.0 when the chosen score is at least 10/11 of the total.
C27_ChosenIsMaximum ==
    Returned =>
        /\ WinningScore >= E
        /\ WinningScore >= B
        /\ WinningScore >= H
        /\ E + B + H > 0 =>
              /\ D.confidence.den > 0
              /\ 30 * D.confidence.num >= 11 * D.confidence.den
              /\ 11 * WinningScore >= 10 * (E + B + H)
                    => D.confidence.num = D.confidence.den

\* the chosen category holds 10/11 or more of a total it shares with another
C27_Witness ==
    /\ Returned
    /\ WinningScore < E + B + H
    /\ 11 * WinningScore >= 10 * (E + B + H)
    /\ D.confidence = Num(1, 1)

(***************************************************************************)
(* The vocabularies, checked under SpecTriageWords                         *)
(***************************************************************************)
\* the keywords that occur in the text or the labels of the call
MatchedKeywords ==
    {k \in Range(engineeringKeywords) \cup Range(businessKeywords) :
        KeywordFound(k, CallText, CallLabelText)}

\* C28: no keyword is in both the engineering and the business vocabulary,
\* so no matched keyword counts for both the engineering and the business
\* score of a call.
C28_VocabulariesDisjoint ==
    Returned =>
        \A k \in MatchedKeywords :
            ~(k \in Range(engineeringKeywords) /\ k \in Range(businessKeywords))

(***************************************************************************)
(* The labels of generateMCPLabels, checked under SpecAgent                *)
(***************************************************************************)
\* C29: for the github platform the labels never hold both mcp/needs-human
\* and agent/available.
C29_NeedsHumanExcludesAvailable ==
    (Generated /\ G.platform = "github") =>
        ~("mcp/needs-human" \in Range(G.labels)
          /\ "agent/available" \in Range(G.labels))

(***************************************************************************)
(* The create_release_pr tool (src/index.ts, lines 662-721) with           *)
(* getExistingPR, updatePR and createPR of utils/github.ts.  The title and *)
(* the body generated from the branch comparison are uninterpreted terms.  *)
(***************************************************************************)
ReleaseCalls == 1..MaxReleaseCalls

ReleaseArgs ==
    [owner : {"acme"},
     repo  : {"widgets"},
     head  : {Undefined, Some("release")},
     base  : {Undefined, Some("main")},
     title : {Undefined, Some("Release 1.0")}]

\* args.head || "dev"
HeadOf(args) == IF Falsy(args.head) THEN "dev" ELSE args.head[1]

\* args.base || "main"
BaseOf(args) == IF Falsy(args.base) THEN "main" ELSE args.base[1]

\* args.title || generatePRTitle(diff, changes.prs)
ReleaseTitle(args) ==
    IF Falsy(args.title) THEN "generatePRTitle(diff, changes.prs)"
    ELSE args.title[1]

ReleaseBody == "generateReleasePRDescription(changes.prs)"

\* the result of Promise.all at lines 669-672
BranchChanges == [files |-> <<>>, prs |-> <<>>]

\* octokit.pulls.list with state open, head and base: the matching positions
OpenPulls(head, base) ==
    {n \in 1..Len(pulls) :
        pulls[n].state = "open" /\ pulls[n].head = head /\ pulls[n].base = base}

\* the pull request octokit.pulls.create adds as the n-th of the repository
NewPull(n, params) ==
    [number |-> n, title |-> params.title, body |-> params.body,
     head |-> params.head, base |-> params.base, state |-> "open"]

\* throw: the tool call ends with an error
ReleaseThrow(r) == rpc' = [rpc EXCEPT ![r] = "thrown"]

\* the tool is called: head and base are defaulted, the comparison starts
CreateReleasePr(r, args) ==
    /\ rpc[r] = "idle"
    /\ rargs' = [rargs EXCEPT ![r] = Some(args)]
    /\ rpc' = [rpc EXCEPT ![r] = "awaitChanges"]
    /\ UNCHANGED <<changes, existingPR, releasePr, relCalls, pulls>>
    /\ UNCHANGED <<tvars, hvars, avars, uvars>>

\* getBranchDiff and analyzeChanges resolve; getExistingPR is called
ChangesResolve(r) ==
    /\ rpc[r] = "awaitChanges"
    /\ changes' = [changes EXCEPT ![r] = Some(BranchChanges)]
    /\ relCalls' = [relCalls EXCEPT ![r].getExistingPR = @ + 1]
    /\ rpc' = [rpc EXCEPT ![r] = "awaitExisting"]
    /\ UNCHANGED <<rargs, existingPR, releasePr, pulls>>
    /\ UNCHANGED <<tvars, hvars, avars, uvars>>

\* getBranchDiff or analyzeChanges rejects
ChangesReject(r) ==
    /\ rpc[r] = "awaitChanges"
    /\ ReleaseThrow(r)
    /\ UNCHANGED <<rargs, changes, existingPR, releasePr, relCalls, pulls>>
    /\ UNCHANGED <<tvars, hvars, avars, uvars>>

\* variant: a pull request is created whatever the lookup returned
ExistingResolve_AlwaysCreate(r, found) ==
    /\ rpc[r] = "awaitExisting"
    /\ existingPR' = [existingPR EXCEPT ![r] = Some(found)]
    /\ relCalls' = [relCalls EXCEPT ![r].createPR = @ + 1]
    /\ rpc' = [rpc EXCEPT ![r] = "awaitCreate"]
    /\ UNCHANGED <<rargs, changes, releasePr, pulls>>
    /\ UNCHANGED <<tvars, hvars, avars, uvars>>

\* getExistingPR resolves with prs[0], found: updatePR or createPR is called
ExistingResolve(r, found) ==
    /\ rpc[r] = "awaitExisting"
    /\ existingPR' = [existingPR EXCEPT ![r] = Some(found)]
    /\ IF found # Undefined
       THEN /\ relCalls' = [relCalls EXCEPT ![r].updatePR = @ + 1]
            /\ rpc' = [rpc EXCEPT ![r] = "awaitUpdate"]
       ELSE /\ relCalls' = [relCalls EXCEPT ![r].createPR = @ + 1]
            /\ rpc' = [rpc EXCEPT ![r] = "awaitCreate"]
    /\ UNCHANGED <<rargs, changes, releasePr, pulls>>
    /\ UNCHANGED <<tvars, hvars, avars, uvars>>

\* the open pull requests from head to base are listed: the first of the
\* list, in whatever order GitHub returns it, or undefined for an empty list
GetExistingPR(r) ==
    /\ rpc[r] = "awaitExisting"
    /\ LET open == OpenPulls(HeadOf(rargs[r][1]), BaseOf(rargs[r][1]))
       IN IF open = {} THEN ExistingResolve(r, Undefined)
          ELSE \E n \in open : ExistingResolve(r, Some(pulls[n]))

\* octokit.pulls.list rejects
ExistingReject(r) ==
    /\ rpc[r] = "awaitExisting"
    /\ ReleaseThrow(r)
    /\ UNCHANGED <<rargs, changes, existingPR, releasePr, relCalls, pulls>>
    /\ UNCHANGED <<tvars, hvars, avars, uvars>>

\* updatePR resolves: title and body of the pull request found are replaced
UpdateResolve(r) ==
    /\ rpc[r] = "awaitUpdate"
    /\ LET number == existingPR[r][1][1].number
           updated == [pulls[number] EXCEPT !.title = ReleaseTitle(rargs[r][1]),
                                            !.body = ReleaseBody]
       IN /\ pulls' = [pulls EXCEPT ![number] = updated]
          /\ releasePr' = [releasePr EXCEPT ![r] = Some(updated)]
    /\ rpc' = [rpc EXCEPT ![r] = "returned"]
    /\ UNCHANGED <<rargs, changes, existingPR, relCalls>>
    /\ UNCHANGED <<tvars, hvars, avars, uvars>>

\* octokit.pulls.update rejects
UpdateReject(r) ==
    /\ rpc[r] = "awaitUpdate"
    /\ ReleaseThrow(r)
    /\ UNCHANGED <<rargs, changes, existingPR, releasePr, relCalls, pulls>>
    /\ UNCHANGED <<tvars, hvars, avars, uvars>>

\* createPR resolves: a new pull request from head to base exists
CreateResolve(r) ==
    /\ rpc[r] = "awaitCreate"
    /\ LET pr == NewPull(Len(pulls) + 1,
                         [title |-> ReleaseTitle(rargs[r][1]),
                          body  |-> ReleaseBody,
                          head  |-> HeadOf(rargs[r][1]),
                          base  |-> BaseOf(rargs[r][1])])
       IN /\ pulls' = Append(pulls, pr)
          /\ releasePr' = [releasePr EXCEPT ![r] = Some(pr)]
    /\ rpc' = [rpc EXCEPT ![r] = "returned"]
    /\ UNCHANGED <<rargs, changes, existingPR, relCalls>>
    /\ UNCHANGED <<tvars, hvars, avars, uvars>>

\* octokit.pulls.create rejects
CreateReject(r) ==
    /\ rpc[r] = "awaitCreate"
    /\ ReleaseThrow(r)
    /\ UNCHANGED <<rargs, changes, existingPR, releasePr, relCalls, pulls>>
    /\ UNCHANGED <<tvars, hvars, avars, uvars>>

\* somebody merges or closes an open pull request on GitHub
ClosePull(n) ==
    /\ n \in 1..Len(pulls)
    /\ pulls[n].state = "open"
    /\ pulls' = [pulls EXCEPT ![n].state = "closed"]
    /\ UNCHANGED <<rpc, rargs, changes, existingPR, releasePr, relCalls>>
    /\ UNCHANGED <<tvars, hvars, avars, uvars>>

InitRelease ==
    /\ tpc = "call"
    /\ title = ""
    /\ description = ""
    /\ labels = <<>>
    /\ scores = Undefined
    /\ decision = Undefined
    /\ HybridIdle
    /\ AgentIdle
    /\ UsageIdle
    /\ rpc = [r \in ReleaseCalls |-> "idle"]
    /\ rargs = [r \in ReleaseCalls |-> Undefined]
    /\ changes = [r \in ReleaseCalls |-> Undefined]
    /\ existingPR = [r \in ReleaseCalls |-> Undefined]
    /\ releasePr = [r \in ReleaseCalls |-> Undefined]
    /\ relCalls = [r \in ReleaseCalls |->
                      [getExistingPR |-> 0, updatePR |-> 0, createPR |-> 0]]
    /\ pulls \in {<<>>,
                  <<NewPull(1, [title |-> "Release 0.9", body |-> "",
                                head |-> "dev", base |-> "main"])>>}

NextRelease ==
    \/ \E r \in ReleaseCalls :
          \/ \E args \in ReleaseArgs : CreateReleasePr(r, args)
          \/ ChangesResolve(r)
          \/ ChangesReject(r)
          \/ GetExistingPR(r)
          \/ ExistingReject(r)
          \/ UpdateResolve(r)
          \/ UpdateReject(r)
          \/ CreateResolve(r)
          \/ CreateReject(r)
    \/ \E n \in 1..(MaxReleaseCalls + 1) : ClosePull(n)

SpecRelease == InitRelease /\ [][NextRelease]_vars

(***************************************************************************)
(* Properties of create_release_pr, checked under SpecRelease              *)
(***************************************************************************)
LookupReturned(r) == existingPR[r] # Undefined
FoundExisting(r) == LookupReturned(r) /\ existingPR[r][1] # Undefined
Writes(r) == relCalls[r].updatePR + relCalls[r].createPR

\* C30: an invocation calls createPR only after its lookup returned no open
\* pull request, and updatePR only after its lookup returned one, whose
\* title and body it replaces without creating any; once the lookup has
\* returned, the invocation has made exactly one of the two calls, and it
\* makes neither before.
C30_UpdateOrCreate ==
    /\ [](\A r \in ReleaseCalls :
             /\ relCalls[r].getExistingPR <= 1
             /\ ~LookupReturned(r) => Writes(r) = 0
             /\ LookupReturned(r) =>
                   /\ relCalls[r].getExistingPR = 1
                   /\ Writes(r) = 1
                   /\ relCalls[r].updatePR = 1 <=> FoundExisting(r)
                   /\ relCalls[r].createPR = 1 <=> ~FoundExisting(r)
             /\ (rpc[r] = "returned" /\ FoundExisting(r)) =>
                   releasePr[r][1].number = existingPR[r][1][1].number)
    /\ [][\A r \in ReleaseCalls :
             /\ (rpc[r] = "awaitUpdate" /\ rpc'[r] = "returned") =>
                   /\ Len(pulls') = Len(pulls)
                   /\ \A n \in 1..Len(pulls) :
                         IF n = existingPR[r][1][1].number
                         THEN pulls'[n] =
                                [pulls[n] EXCEPT !.title = ReleaseTitle(rargs[r][1]),
                                                 !.body = ReleaseBody]
                         ELSE pulls'[n] = pulls[n]
             /\ (rpc[r] = "awaitCreate" /\ rpc'[r] = "returned") =>
                   /\ Len(pulls') = Len(pulls) + 1
                   /\ \A n \in 1..Len(pulls) : pulls'[n] = pulls[n]
                   /\ pulls'[Len(pulls')] = releasePr'[r][1]]_vars

\* one invocation created the pull request that a later one found and updated
C30_Witness ==
    \E r, q \in ReleaseCalls :
        /\ rpc[r] = "returned"
        /\ rpc[q] = "returned"
        /\ relCalls[r].createPR = 1
        /\ relCalls[q].updatePR = 1
        /\ existingPR[q][1][1].number = releasePr[r][1].number
        /\ Len(pulls) = releasePr[r][1].number

====
